---- MODULE Spec2Model ----
(***************************************************************************)
(* The client-context / request bridge of ton-client-py.                   *)
(*                                                                         *)
(*   src/tonsdk/lib.py     get_lib_basename, TonClient (ctypes bridge):    *)
(*                         _create_context, _destroy_context, _request,    *)
(*                         request, setup                                  *)
(*   src/tonsdk/client.py  TonClient (facade): __init__ (create context +  *)
(*                         setup with merged config), setup,               *)
(*                         destroy_context                                 *)
(*                                                                         *)
(* The native engine is opaque: its answers are nondeterministic choices.  *)
(* The program is single threaded: at most one request is in progress.     *)
(***************************************************************************)
EXTENDS Integers, Sequences, FiniteSets, TLC

\* ------------------------------------------------------------------ bounds
\* Clients constructed in one run (each creates at most one context).
MaxClients == 2
\* Requests issued in one run (caps the counters).
MaxCalls == 2
\* tc_destroy_context invocations counted per handle.
MaxDestroy == 2
\* Events the engine emits in one run.
MaxEvents == 3
\* Subscriptions made in one run.
MaxSubs == 1

\* ------------------------------------------------- library resolution
\* platform.system() values the host may report.
Platforms == {"Windows", "Darwin", "Linux", "Java", "FreeBSD", ""}

\* str.lower() on the platform names above.
Lower(s) ==
    CASE s = "Windows" -> "windows"
      [] s = "Darwin"  -> "darwin"
      [] s = "Linux"   -> "linux"
      [] s = "Java"    -> "java"
      [] s = "FreeBSD" -> "freebsd"
      [] OTHER         -> ""

\* str.capitalize() on the lower-cased names.
Capitalize(s) ==
    CASE s = "windows" -> "Windows"
      [] s = "darwin"  -> "Darwin"
      [] s = "linux"   -> "Linux"
      [] s = "java"    -> "Java"
      [] s = "freebsd" -> "Freebsd"
      [] OTHER         -> ""

LIB_DIR == "bin"
LIB_FILENAME == "ton-rust-client-0.25.0"

\* lib_ext_dict: the platforms that have a library, and its extension.
lib_ext_keys == {"windows", "darwin", "linux"}
lib_ext_dict(plt) ==
    CASE plt = "windows" -> "dll"
      [] plt = "darwin"  -> "dylib"
      [] plt = "linux"   -> "so"

\* A bug that falls back to the Linux artifact on an unmapped platform.
get_lib_basename_fallback(system) ==
    LET plt == Lower(system) IN
    [ok |-> TRUE,
     dir |-> LIB_DIR, file |-> LIB_FILENAME,
     ext |-> IF plt \in lib_ext_keys THEN lib_ext_dict(plt) ELSE "so",
     error |-> "", platform |-> ""]

\* get_lib_basename(): the path of the artifact, or RuntimeError naming the
\* platform.  `system` is platform.system().
get_lib_basename(system) ==
    LET plt == Lower(system) IN
    IF plt \notin lib_ext_keys
    THEN [ok |-> FALSE, dir |-> "", file |-> "", ext |-> "",
          error |-> "RuntimeError: No library for current platform",
          platform |-> Capitalize(plt)]
    ELSE [ok |-> TRUE, dir |-> LIB_DIR, file |-> LIB_FILENAME,
          ext |-> lib_ext_dict(plt), error |-> "", platform |-> ""]

NotResolved ==
    [ok |-> FALSE, dir |-> "", file |-> "", ext |-> "", error |-> "",
     platform |-> ""]


\* ------------------------------------------------------- Python values
EmptyMap == [k \in {} |-> 0]

\* A Python value is the name of its type and its content:
\*   None         nothing;
\*   bool, int    the boolean, the integer;
\*   float        <<numerator, denominator>>: 1.5 is <<3, 2>>;
\*   str          the sequence of its pieces, a piece being a run of
\*                printable ASCII characters other than " and \ or one
\*                other character, given by its code point;
\*   list         the sequence of its elements;
\*   dict         the function from its keys, ASCII names, to its values.
PyNone == [tag |-> "None", items |-> EmptyMap]
PyBool(b) == [tag |-> "bool", items |-> b]
PyInt(n) == [tag |-> "int", items |-> n]
PyFloat(n, d) == [tag |-> "float", items |-> <<n, d>>]
PyStr(pieces) == [tag |-> "str", items |-> pieces]
PyList(elements) == [tag |-> "list", items |-> elements]
PyDict(f) == [tag |-> "dict", items |-> f]

Run(text) == [tag |-> "run", items |-> text]
Char(cp) == [tag |-> "char", items |-> cp]

\* A str literal of the source that is all printable ASCII.
Text(text) == PyStr(IF text = "" THEN <<>> ELSE <<Run(text)>>)

\* Python truthiness: `not v`.
Falsy(v) ==
    CASE v.tag = "None"  -> TRUE
      [] v.tag = "bool"  -> ~v.items
      [] v.tag = "int"   -> v.items = 0
      [] v.tag = "float" -> v.items[1] = 0
      [] v.tag = "str"   -> Len(v.items) = 0
      [] v.tag = "list"  -> Len(v.items) = 0
      [] v.tag = "dict"  -> DOMAIN v.items = {}

\* ------------------------------------------------------------ settings
\* A settings map is a function from setting names to Python values.

\* client.py: TON_CLIENT_DEFAULT_SETUP.
TON_CLIENT_DEFAULT_SETUP ==
    ("servers" :> PyList(<<Text("http://localhost")>>)) @@
    ("messageRetriesCount" :> PyInt(1)) @@
    ("messageExpirationTimeout" :> PyInt(50000)) @@
    ("messageExpirationTimeoutGrowFactor" :> PyFloat(3, 2)) @@
    ("messageProcessingTimeout" :> PyInt(50000)) @@
    ("messageProcessingTimeoutGrowFactor" :> PyFloat(3, 2)) @@
    ("waitForTimeout" :> PyInt(30000)) @@
    ("accessKey" :> Text(""))

DEVNET_BASE_URL == "net.ton.dev"
MAINNET_BASE_URL == "main.ton.dev"

\* lib.py: TON_CLIENT_DEFAULT_SETUP, the default argument of TonClient.setup.
LIB_TON_CLIENT_DEFAULT_SETUP ==
    ("baseUrl" :> Text(DEVNET_BASE_URL)) @@
    ("messageRetriesCount" :> PyInt(1)) @@
    ("messageExpirationTimeout" :> PyInt(50000)) @@
    ("messageExpirationTimeoutGrowFactor" :> PyFloat(3, 2)) @@
    ("messageProcessingTimeout" :> PyInt(50000)) @@
    ("messageProcessingTimeoutGrowFactor" :> PyFloat(3, 2)) @@
    ("waitForTimeout" :> PyInt(30000)) @@
    ("accessKey" :> Text(""))

\* The names a caller may pass: every default, and one that has no default.
ConfigKeys == DOMAIN TON_CLIENT_DEFAULT_SETUP \cup {"networkRetriesCount"}
OverriddenKeys == {"servers", "networkRetriesCount"}

\* A value for each name that differs from its default.
CallerValue(k) ==
    CASE k = "servers" -> PyList(<<Text("main.ton.dev"), Text("net.ton.dev")>>)
      [] k = "messageRetriesCount" -> PyInt(5)
      [] k = "messageExpirationTimeout" -> PyInt(10000)
      [] k = "messageExpirationTimeoutGrowFactor" -> PyFloat(2, 1)
      [] k = "messageProcessingTimeout" -> PyInt(40000)
      [] k = "messageProcessingTimeoutGrowFactor" -> PyFloat(1, 1)
      [] k = "waitForTimeout" -> PyInt(1000)
      [] k = "accessKey" -> Text("secret")
      [] OTHER -> PyInt(3)

\* The keyword arguments of TonClient(**config) that are tried: none, a
\* name that has a default, and a name that has none.
Configs ==
    {EmptyMap} \cup {k :> CallerValue(k) : k \in OverriddenKeys}

\* A bug that merges the wrong way round: the defaults win.
merge_defaults_win(defaults, config) ==
    [k \in DOMAIN defaults \cup DOMAIN config |->
        IF k \in DOMAIN defaults THEN defaults[k] ELSE config[k]]

\* {**defaults, **config}: every key of either, the caller's value winning.
merge(defaults, config) ==
    [k \in DOMAIN defaults \cup DOMAIN config |->
        IF k \in DOMAIN config THEN config[k] ELSE defaults[k]]

\* ---------------------------------------------------------------- JSON
\* A JSON value is the name of its kind and its content:
\*   null, true, false   nothing;
\*   number              <<n>> for an integer literal, <<n, d>> for a
\*                       literal with a fraction;
\*   string              the sequence of its parts, a part being a run of
\*                       characters written as they are or one \uXXXX
\*                       escape, given by its 16-bit unit;
\*   array, object       the elements, the members.
JsonNull == [type |-> "null", members |-> EmptyMap]
Chars(text) == [type |-> "chars", members |-> text]
Escape(unit) == [type |-> "escape", members |-> unit]

\* json.dumps of one piece of a str (ensure_ascii): a run is copied, any
\* other character becomes one escape, or the two escapes of its surrogate
\* pair when it lies above the basic plane.
escape_piece(p) ==
    IF p.tag = "run" THEN <<Chars(p.items)>>
    ELSE IF p.items < 65536 THEN <<Escape(p.items)>>
    ELSE <<Escape(55296 + ((p.items - 65536) \div 1024)),
           Escape(56320 + ((p.items - 65536) % 1024))>>

RECURSIVE encode_str(_)
encode_str(pieces) ==
    IF Len(pieces) = 0 THEN <<>>
    ELSE escape_piece(Head(pieces)) \o encode_str(Tail(pieces))

\* json.dumps(v): the JSON text, as the JSON value it denotes.
RECURSIVE json_dumps(_)
json_dumps(v) ==
    CASE v.tag = "None"  -> JsonNull
      [] v.tag = "bool"  ->
           [type |-> IF v.items THEN "true" ELSE "false", members |-> EmptyMap]
      [] v.tag = "int"   -> [type |-> "number", members |-> <<v.items>>]
      [] v.tag = "float" -> [type |-> "number", members |-> v.items]
      [] v.tag = "str"   -> [type |-> "string", members |-> encode_str(v.items)]
      [] v.tag = "list"  ->
           [type |-> "array",
            members |-> [i \in DOMAIN v.items |-> json_dumps(v.items[i])]]
      [] v.tag = "dict"  ->
           [type |-> "object",
            members |-> [k \in DOMAIN v.items |-> json_dumps(v.items[k])]]

\* A bug that serialises params as they are, without `or {}`.
encode_params_as_given(params) == json_dumps(params)

\* json.dumps(params or {}): the params text handed to the engine.
encode_params(params) ==
    json_dumps(IF Falsy(params) THEN PyDict(EmptyMap) ELSE params)

\* The decoding of the parts of a JSON string: a high surrogate escape
\* followed by a low one is one character.
RECURSIVE decode_str(_)
decode_str(parts) ==
    IF Len(parts) = 0 THEN <<>>
    ELSE LET p == Head(parts) IN
         IF p.type = "chars"
         THEN <<Run(p.members)>> \o decode_str(Tail(parts))
         ELSE IF /\ p.members \in 55296 .. 56319
                 /\ Len(parts) >= 2
                 /\ parts[2].type = "escape"
                 /\ parts[2].members \in 56320 .. 57343
              THEN <<Char(65536 + (p.members - 55296) * 1024
                                + (parts[2].members - 56320))>>
                   \o decode_str(Tail(Tail(parts)))
              ELSE <<Char(p.members)>> \o decode_str(Tail(parts))

\* The value a JSON text decodes to.
RECURSIVE json_loads(_)
json_loads(j) ==
    CASE j.type = "null"   -> PyNone
      [] j.type = "true"   -> PyBool(TRUE)
      [] j.type = "false"  -> PyBool(FALSE)
      [] j.type = "number" ->
           IF Len(j.members) = 1 THEN PyInt(j.members[1])
           ELSE PyFloat(j.members[1], j.members[2])
      [] j.type = "string" -> PyStr(decode_str(j.members))
      [] j.type = "array"  ->
           PyList([i \in DOMAIN j.members |-> json_loads(j.members[i])])
      [] j.type = "object" ->
           PyDict([k \in DOMAIN j.members |-> json_loads(j.members[k])])

\* The requests tried on a lib.py client, <<method, params>>:
\*   setup()          sends TON_CLIENT_DEFAULT_SETUP of lib.py,
\*   setup(settings)  sends the caller's settings as they are,
\*   version()        passes no params.
LibRequests ==
    { <<"setup", PyDict(LIB_TON_CLIENT_DEFAULT_SETUP)>>,
      <<"setup", PyDict("baseUrl" :> Text(MAINNET_BASE_URL))>>,
      <<"version", PyNone>> }

\* The requests tried on a client.py client, <<method, keyword arguments>>:
\*   setup(settings)  is base.setup: request(method="setup", **settings),
\*   version()        is base.version: request(method="version").
FacadeRequests ==
    { <<"setup", "servers" :> CallerValue("servers")>>,
      <<"version", EmptyMap>> }

\* ------------------------------------------------------------ engine
\* What tc_json_request may answer, whatever the request: a result, one
\* of two errors, or a response that tc_read_json_response / the accessors
\* of InteropJsonResponse cannot read.
Responses ==
    { [success |-> TRUE,  payload |-> "result", decodable |-> TRUE],
      [success |-> FALSE, payload |-> "error1", decodable |-> TRUE],
      [success |-> FALSE, payload |-> "error2", decodable |-> TRUE],
      [success |-> FALSE, payload |-> "garbage", decodable |-> FALSE] }

NoResponse == [success |-> FALSE, payload |-> "", decodable |-> FALSE]
NoCfg == [set |-> FALSE, settings |-> EmptyMap]

Handles == 1 .. MaxClients

\* The methods that use the network module of the engine: on a context whose
\* network module is suspended they fail ("Can not use network module since
\* it is suspended").
NetworkMethods == {"processing.process_message"}

\* ------------------------------------------------------------- state
VARIABLES
    platform,      \* platform.system() of the host
    imported,      \* "no" | "ok" | "failed": `import tonsdk.lib`
    resolved,      \* what get_lib_basename() gave at import
    libLoads,      \* ctypes.cdll.LoadLibrary invocations
    nCtx,          \* tc_create_context invocations (handles 1 .. nCtx)
    live,          \* the engine's live context handles
    destroyCalls,  \* tc_destroy_context invocations per handle
    engineCfg,     \* per handle: the settings of the last setup that succeeded
    requested,     \* the handles the engine has received a request on
    unreleased,    \* response pointers not yet given to tc_destroy_json_response
    clients,       \* the client objects, in construction order
    call,          \* the request in progress, or the one that just ended
    nCalls,        \* request() invocations
    engineReqs,    \* tc_json_request invocations
    suspended,     \* the contexts whose network module is suspended
    subs,          \* the subscriptions, in the order they were made
    emitted        \* the number of events the engine has emitted

vars == <<platform, imported, resolved, libLoads, nCtx, live, destroyCalls,
          engineCfg, requested, unreleased, clients, call, nCalls, engineReqs,
          suspended, subs, emitted>>

engineVars == <<nCtx, live, destroyCalls, engineCfg, requested, unreleased,
                engineReqs>>
importVars == <<platform, imported, resolved>>
netVars == <<suspended, subs, emitted>>

\* No request in progress and no outcome to look at.
IdleCall ==
    [pc |-> "idle", id |-> 0, client |-> 0, ctx |-> 0, purpose |-> "",
     op |-> "", args |-> <<>>,
     method |-> "", params |-> PyNone, raise_exception |-> TRUE,
     wire |-> [type |-> "null", members |-> EmptyMap],
     retired |-> FALSE, first |-> FALSE, sent |-> 0, resp |-> 0, response |-> NoResponse,
     is_success |-> FALSE, response_json |-> "", releases |-> 0,
     outcomes |-> 0, exc |-> "", exc_payload |-> "", value |-> ""]

\* The positions at which no request is in progress.
Finished == {"idle", "returned", "raised", "read_failed"}

\* The state before tonsdk is imported, on host `hosts`.
InitOn(hosts) ==
    /\ platform \in hosts
    /\ imported = "no"
    /\ resolved = NotResolved
    /\ libLoads = 0
    /\ nCtx = 0
    /\ live = {}
    /\ destroyCalls = [h \in Handles |-> 0]
    /\ engineCfg = [h \in Handles |-> NoCfg]
    /\ requested = {}
    /\ unreleased = {}
    /\ clients = <<>>
    /\ call = IdleCall
    /\ nCalls = 0
    /\ engineReqs = 0
    /\ suspended = {}
    /\ subs = <<>>
    /\ emitted = 0

\* A Linux host, or a host that has no library.
Init == InitOn({"Linux", "FreeBSD"})

\* Any host.
InitLoad == InitOn(Platforms)

\* Importing tonsdk.lib evaluates the default argument of TonClient.__init__,
\* lib_path = get_lib_basename(), when the class body is executed.
ImportLib ==
    /\ imported = "no"
    /\ resolved' = get_lib_basename(platform)
    /\ imported' = IF resolved'.ok THEN "ok" ELSE "failed"
    /\ UNCHANGED <<platform, netVars, libLoads, engineVars, clients, call, nCalls>>

\* ----------------------------------------------------------- clients
NewClient(kind, ctx, state, config) ==
    [kind |-> kind, ctx |-> ctx, state |-> state, config |-> config,
     initSetups |-> 0]

ClientIds == 1 .. Len(clients)

\* _request, up to the foreign call: the method name and the params are
\* encoded; the context is the one the object was constructed with, whether
\* or not it has been given to tc_destroy_context since.
start_call(c, ctx, purpose, method, params, raise_exception) ==
    [IdleCall EXCEPT
        !.pc = "send", !.id = nCalls + 1, !.client = c, !.ctx = ctx,
        !.purpose = purpose, !.method = method, !.params = params,
        !.raise_exception = raise_exception,
        !.wire = encode_params(params),
        !.retired = destroyCalls[ctx] > 0]

\* A bug that sends every request on the context created first, as a
\* module-level context would.
start_request_shared(c, ctx, purpose, method, params, raise_exception) ==
    [IdleCall EXCEPT
        !.pc = "send", !.id = nCalls + 1, !.client = c, !.ctx = 1,
        !.purpose = purpose, !.method = method, !.params = params,
        !.raise_exception = raise_exception,
        !.wire = encode_params(params),
        !.retired = destroyCalls[1] > 0]

\* request(method, params, raise_exception) of lib.py, up to the foreign
\* call.
start_request(c, ctx, purpose, method, params, raise_exception) ==
    start_call(c, ctx, purpose, method, params, raise_exception)

\* TonModule.request(method, **params) of tonsdk/module.py: the keyword
\* arguments are the request's params, sent on the module's context through
\* the same bridge; an engine error is raised.
module_request(c, ctx, purpose, method, kwargs) ==
    start_request(c, ctx, purpose, method, PyDict(kwargs), TRUE)

\* A bug that keeps one context for every client, as a module-level
\* context would.
ConstructLibShared ==
    /\ imported = "ok"
    /\ call.pc \in Finished
    /\ Len(clients) < MaxClients
    /\ libLoads' = libLoads + 1
    /\ nCtx' = nCtx + 1
    /\ live' = live \cup {1}
    /\ clients' = Append(clients, NewClient("lib", 1, "ready", EmptyMap))
    /\ call' = IdleCall
    /\ UNCHANGED <<importVars, netVars, destroyCalls, engineCfg, requested, unreleased,
                   nCalls, engineReqs>>

\* lib.py TonClient.__init__: load the library at the resolved path (the
\* artifact is taken to be there), then create a context.
ConstructLib ==
    /\ imported = "ok"
    /\ call.pc \in Finished
    /\ Len(clients) < MaxClients
    /\ libLoads' = libLoads + 1
    /\ nCtx' = nCtx + 1
    /\ live' = live \cup {nCtx + 1}
    /\ clients' = Append(clients, NewClient("lib", nCtx + 1, "ready", EmptyMap))
    /\ call' = IdleCall
    /\ UNCHANGED <<importVars, netVars, destroyCalls, engineCfg, requested, unreleased,
                   nCalls, engineReqs>>

\* client.py TonClient.__init__(**config): create a context, build the
\* modules on it, and start base.setup({**TON_CLIENT_DEFAULT_SETUP, **config}).
ConstructFacade(config) ==
    /\ imported = "ok"
    /\ call.pc \in Finished
    /\ Len(clients) < MaxClients
    /\ nCalls < MaxCalls
    /\ nCtx' = nCtx + 1
    /\ live' = live \cup {nCtx + 1}
    /\ clients' = Append(clients,
            NewClient("facade", nCtx + 1, "constructing", config))
    /\ call' = module_request(Len(clients) + 1, nCtx + 1, "init", "setup",
                   merge(TON_CLIENT_DEFAULT_SETUP, config))
    /\ nCalls' = nCalls + 1
    /\ UNCHANGED <<importVars, netVars, libLoads, destroyCalls, engineCfg, requested,
                   unreleased, engineReqs>>

\* lib.py: request(method, params, raise_exception) on a constructed
\* client; setup(settings) and version() only name the method.
LibRequest(c, req, raise_exception) ==
    /\ call.pc \in Finished
    /\ nCalls < MaxCalls
    /\ clients[c].kind = "lib"
    /\ clients[c].state = "ready"
    /\ call' = start_request(c, clients[c].ctx, "user", req[1], req[2],
                   raise_exception)
    /\ nCalls' = nCalls + 1
    /\ UNCHANGED <<importVars, netVars, libLoads, engineVars, clients>>

\* client.py: TonClient.setup and TonClient.version are base.setup and
\* base.version, requests of the base module on the client's context.
FacadeRequest(c, req) ==
    /\ call.pc \in Finished
    /\ nCalls < MaxCalls
    /\ clients[c].kind = "facade"
    /\ clients[c].state = "ready"
    /\ call' = module_request(c, clients[c].ctx, "user", req[1], req[2])
    /\ nCalls' = nCalls + 1
    /\ UNCHANGED <<importVars, netVars, libLoads, engineVars, clients>>

\* destroy_context() / _destroy_context(self.context): the handle goes to
\* tc_destroy_context; the object keeps it.
DestroyContext(c) ==
    /\ call.pc \in Finished
    /\ clients[c].state = "ready"
    /\ destroyCalls[clients[c].ctx] < MaxDestroy
    /\ destroyCalls' = [destroyCalls EXCEPT ![clients[c].ctx] = @ + 1]
    /\ live' = live \ {clients[c].ctx}
    /\ call' = IdleCall
    /\ UNCHANGED <<importVars, netVars, libLoads, nCtx, engineCfg, requested,
                   unreleased, clients, nCalls, engineReqs>>

\* A bug that retries: after an error answer the request is sent again.
JsonRequestRetry ==
    /\ call.pc = "send"
    /\ \E r \in Responses :
        /\ r.success =>
              ~(call.method \in NetworkMethods /\ call.ctx \in suspended)
        /\ call' = [call EXCEPT !.pc = IF r.success THEN "read" ELSE "send",
                                !.sent = @ + 1,
                                !.resp = call.id, !.response = r,
                                !.first = call.ctx \notin requested]
        /\ engineCfg' =
             IF call.method = "setup" /\ r.success /\ call.ctx \in live
             THEN [engineCfg EXCEPT ![call.ctx] =
                      [set |-> TRUE, settings |-> call.wire.members]]
             ELSE engineCfg
    /\ engineReqs' = engineReqs + 1
    /\ unreleased' = unreleased \cup {call.id}
    /\ requested' = requested \cup {call.ctx}
    /\ clients' =
         IF call.purpose = "init"
         THEN [clients EXCEPT ![call.client].initSetups = @ + 1]
         ELSE clients
    /\ UNCHANGED <<importVars, netVars, libLoads, nCtx, live, destroyCalls, nCalls>>

\* _request: response = tc_json_request(self.context, method_name, params).
\* The engine answers as it likes; a setup that succeeds on a live context
\* becomes that context's configuration.
JsonRequest ==
    /\ call.pc = "send"
    /\ \E r \in Responses :
        /\ r.success =>
              ~(call.method \in NetworkMethods /\ call.ctx \in suspended)
        /\ call' = [call EXCEPT !.pc = "read", !.sent = @ + 1,
                                !.resp = call.id, !.response = r,
                                !.first = call.ctx \notin requested]
        /\ engineCfg' =
             IF call.method = "setup" /\ r.success /\ call.ctx \in live
             THEN [engineCfg EXCEPT ![call.ctx] =
                      [set |-> TRUE, settings |-> call.wire.members]]
             ELSE engineCfg
    /\ engineReqs' = engineReqs + 1
    /\ unreleased' = unreleased \cup {call.id}
    /\ requested' = requested \cup {call.ctx}
    /\ clients' =
         IF call.purpose = "init"
         THEN [clients EXCEPT ![call.client].initSetups = @ + 1]
         ELSE clients
    /\ UNCHANGED <<importVars, netVars, libLoads, nCtx, live, destroyCalls, nCalls>>

\* How a request that ended changes the object under construction: an
\* exception leaves __init__ and no object is bound.
after_call(raised) ==
    IF call.purpose = "init"
    THEN [clients EXCEPT ![call.client].state =
             IF raised THEN "failed" ELSE "ready"]
    ELSE clients

\* _request: read = tc_read_json_response(response); is_success and json are
\* taken from it.  When the response cannot be read the exception leaves
\* _request and request at once.
ReadResponse ==
    /\ call.pc = "read"
    /\ IF call.response.decodable
       THEN /\ call' = [call EXCEPT !.pc = "release",
                            !.is_success = call.response.success,
                            !.response_json = call.response.payload]
            /\ UNCHANGED clients
       ELSE /\ call' = [call EXCEPT !.pc = "read_failed", !.outcomes = @ + 1,
                            !.exc = "ParseError"]
            /\ clients' = after_call(TRUE)
    /\ UNCHANGED <<importVars, netVars, libLoads, engineVars, nCalls>>

\* _request: tc_destroy_json_response(response).
DestroyResponse ==
    /\ call.pc = "release"
    /\ unreleased' = unreleased \ {call.resp}
    /\ call' = [call EXCEPT !.pc = "return", !.releases = @ + 1]
    /\ UNCHANGED <<importVars, netVars, libLoads, nCtx, live, destroyCalls, engineCfg,
                   requested, clients, nCalls, engineReqs>>

\* A bug that raises a generic error instead of the engine's payload.
request_outcome_generic(is_success, response_json, raise_exception) ==
    IF raise_exception /\ ~is_success
    THEN [pc |-> "raised", exc |-> "Exception", exc_payload |-> "error",
          value |-> ""]
    ELSE [pc |-> "returned", exc |-> "", exc_payload |-> "",
          value |-> response_json]

\* A bug that never raises.
request_outcome_silent(is_success, response_json, raise_exception) ==
    [pc |-> "returned", exc |-> "", exc_payload |-> "",
     value |-> response_json]

\* request: raise Exception(result["result"]) when raise_exception is set and
\* the response is no success, else return result["result"].
request_outcome(is_success, response_json, raise_exception) ==
    IF raise_exception /\ ~is_success
    THEN [pc |-> "raised", exc |-> "Exception", exc_payload |-> response_json,
          value |-> ""]
    ELSE [pc |-> "returned", exc |-> "", exc_payload |-> "",
          value |-> response_json]

\* _request returns {'success', 'result'}; request raises or returns.
Return ==
    /\ call.pc = "return"
    /\ LET o == request_outcome(call.is_success, call.response_json,
                                call.raise_exception) IN
        /\ call' = [call EXCEPT !.pc = o.pc, !.exc = o.exc,
                        !.exc_payload = o.exc_payload, !.value = o.value,
                        !.outcomes = @ + 1]
        /\ clients' = after_call(o.pc = "raised")
    /\ UNCHANGED <<importVars, netVars, libLoads, engineVars, nCalls>>

\* ----------------------------------------------- operations of lib.py
TYPE_TEXT == "text"
TYPE_HEX == "hex"
TYPE_BASE64 == "base64"

\* What a call of _str_type_dict gives: the dict, or ValueError raised.
Built(v) == [ok |-> TRUE, value |-> v]
ValueError == [ok |-> FALSE, value |-> PyNone]

\* A bug that takes every unknown format for plain text.
str_type_dict_lenient(string, fmt) ==
    IF fmt = Text(TYPE_BASE64) THEN Built(PyDict("base64" :> string))
    ELSE IF fmt = Text(TYPE_HEX) THEN Built(PyDict("hex" :> string))
    ELSE Built(PyDict("text" :> string))

\* _str_type_dict(string, fmt).
str_type_dict(string, fmt) ==
    IF fmt = Text(TYPE_BASE64) THEN Built(PyDict("base64" :> string))
    ELSE IF fmt = Text(TYPE_HEX) THEN Built(PyDict("hex" :> string))
    ELSE IF fmt = Text(TYPE_TEXT) THEN Built(PyDict("text" :> string))
    ELSE ValueError

\* str(index) of an int or a str.
py_str(v) == IF v.tag = "int" THEN Text(ToString(v.items)) ELSE v

\* An operation `op(args)` of a lib.py client: the _str_type_dict calls it
\* makes while it builds its params come first, and the first that raises
\* ends the operation; otherwise it calls request(method, params).
operation(c, op, args, built, method, params) ==
    /\ call.pc \in Finished
    /\ nCalls < MaxCalls
    /\ clients[c].kind = "lib"
    /\ clients[c].state = "ready"
    /\ IF \A i \in DOMAIN built : built[i].ok
       THEN /\ call' = [start_request(c, clients[c].ctx, "user", method,
                                      params, TRUE)
                           EXCEPT !.op = op, !.args = args]
            /\ nCalls' = nCalls + 1
       ELSE /\ call' = [IdleCall EXCEPT
                           !.pc = "raised", !.client = c,
                           !.ctx = clients[c].ctx, !.purpose = "user",
                           !.op = op, !.args = args, !.outcomes = 1,
                           !.exc = "ValueError",
                           !.exc_payload =
                               "One of 'base64, hex, text' should be provided"]
            /\ UNCHANGED nCalls
    /\ UNCHANGED <<importVars, netVars, libLoads, engineVars, clients>>

ton_crc16(c, string, fmt) ==
    LET params == str_type_dict(string, fmt) IN
    operation(c, "ton_crc16", <<string, fmt>>, <<params>>,
              "crypto.ton_crc16", params.value)

mnemonic_from_entropy(c, entropy, fmt, word_count) ==
    LET e == str_type_dict(entropy, fmt) IN
    operation(c, "mnemonic_from_entropy", <<entropy, fmt, word_count>>, <<e>>,
              "crypto.mnemonic.from.entropy",
              PyDict(("wordCount" :> word_count) @@ ("entropy" :> e.value)))

sha512(c, string, fmt) ==
    LET m == str_type_dict(string, fmt) IN
    operation(c, "sha512", <<string, fmt>>, <<m>>, "crypto.sha512",
              PyDict("message" :> m.value))

sha256(c, string, fmt) ==
    LET m == str_type_dict(string, fmt) IN
    operation(c, "sha256", <<string, fmt>>, <<m>>, "crypto.sha256",
              PyDict("message" :> m.value))

scrypt(c, data, n, r, p, dk_len, salt, salt_fmt, password, password_fmt) ==
    LET s == str_type_dict(salt, salt_fmt)
        pw == str_type_dict(password, password_fmt) IN
    operation(c, "scrypt",
              <<data, n, r, p, dk_len, salt, salt_fmt, password,
                password_fmt>>,
              <<s, pw>>, "crypto.scrypt",
              PyDict(("data" :> data) @@ ("salt" :> s.value) @@
                     ("password" :> pw.value) @@ ("logN" :> n) @@
                     ("r" :> r) @@ ("p" :> p) @@ ("dkLen" :> dk_len)))

\* keystore_remove(index): request(params=str(index)).
keystore_remove(c, index) ==
    operation(c, "keystore_remove", <<index>>, <<>>,
              "crypto.keystore.remove", py_str(index))

\* factorize(number): request(params=number).
factorize(c, number) ==
    operation(c, "factorize", <<number>>, <<>>, "crypto.math.factorize",
              number)

\* The nacl operations that take a message and its format: the method and
\* the names of the params that come with the message.
NaclOps ==
    { [name |-> "nacl_box", method |-> "crypto.nacl.box",
       keys |-> {"nonce", "theirPublicKey"}],
      [name |-> "nacl_sign", method |-> "crypto.nacl.sign",
       keys |-> {"key"}],
      [name |-> "nacl_secret_box_open",
       method |-> "crypto.nacl.secret.box.open", keys |-> {"nonce", "key"}],
      [name |-> "nacl_sign_detached", method |-> "crypto.nacl.sign.detached",
       keys |-> {"key"}],
      [name |-> "nacl_secret_box", method |-> "crypto.nacl.secret.box",
       keys |-> {"nonce", "key"}],
      [name |-> "nacl_box_open", method |-> "crypto.nacl.box.open",
       keys |-> {"nonce", "theirPublicKey", "secretKey"}],
      [name |-> "nacl_sign_open", method |-> "crypto.nacl.sign.open",
       keys |-> {"key"}] }

\* nacl_box, nacl_sign, ...: `given` holds the arguments other than the
\* message, by the name of the param each becomes.
nacl_message(c, o, given, message, fmt) ==
    LET m == str_type_dict(message, fmt) IN
    operation(c, o.name, <<message, fmt>>, <<m>>, o.method,
              PyDict(given @@ ("message" :> m.value)))

Next ==
    \/ ImportLib
    \/ ConstructLib
    \/ \E config \in Configs : ConstructFacade(config)
    \/ \E c \in ClientIds, req \in LibRequests, raise_exception \in BOOLEAN :
         LibRequest(c, req, raise_exception)
    \/ \E c \in ClientIds, req \in FacadeRequests : FacadeRequest(c, req)
    \/ \E c \in ClientIds : DestroyContext(c)
    \/ JsonRequest
    \/ ReadResponse
    \/ DestroyResponse
    \/ Return

Spec == Init /\ [][Next]_vars

\* Library resolution and client construction on every host.
NextLoad ==
    \/ ImportLib
    \/ ConstructLib
    \/ \E config \in Configs : ConstructFacade(config)
    \/ \E c \in ClientIds : DestroyContext(c)
    \/ JsonRequest
    \/ ReadResponse
    \/ DestroyResponse
    \/ Return

SpecLoad == InitLoad /\ [][NextLoad]_vars

\* The values tried as the params of request: None and the other falsy
\* values, scalars, a str of ASCII and other characters ("na\u00efve" and
\* U+1F600), a str that is one quotation mark, lists and dicts, nested and
\* empty.
Unicode == PyStr(<<Run("na"), Char(239), Run("ve "), Char(128512)>>)

ParamValues ==
    { PyNone, PyDict(EmptyMap), PyList(<<>>), Text(""), PyInt(0),
      PyBool(FALSE), PyFloat(0, 1),
      PyBool(TRUE), PyInt(7), PyFloat(3, 2), Text("abc"), Unicode,
      PyStr(<<Char(34)>>),
      PyList(<<PyInt(1), Text("x")>>),
      PyList(<<PyList(<<>>), PyDict(EmptyMap)>>),
      PyDict("a" :> PyInt(1)),
      PyDict(("a" :> PyDict("b" :> PyList(<<>>))) @@ ("c" :> PyDict(EmptyMap))),
      PyDict(("s" :> Unicode) @@ ("n" :> PyNone)) }

\* request(method='crypto.keystore.add', params=keypair), whatever keypair.
ParamRequests == { <<"crypto.keystore.add", p>> : p \in ParamValues }

\* The arguments tried with the operations of lib.py.
Strings == {Text(""), Unicode}
Formats ==
    { Text(TYPE_TEXT), Text(TYPE_HEX), Text(TYPE_BASE64), Text("TEXT"),
      PyNone }
Indexes == {PyInt(0), PyInt(7), Text(""), Text("0")}
Numbers == {PyInt(0), PyInt(15), Text(""), Text("2a")}

\* The operations of a lib.py client, with params of every shape.
NextParams ==
    \/ ImportLib
    \/ ConstructLib
    \/ \E c \in ClientIds, req \in ParamRequests : LibRequest(c, req, TRUE)
    \/ \E c \in ClientIds, string \in Strings, fmt \in Formats :
         ton_crc16(c, string, fmt)
    \/ \E c \in ClientIds, entropy \in Strings, fmt \in Formats :
         mnemonic_from_entropy(c, entropy, fmt, PyInt(24))
    \/ \E c \in ClientIds, string \in Strings, fmt \in Formats :
         sha512(c, string, fmt)
    \/ \E c \in ClientIds, string \in Strings, fmt \in Formats :
         sha256(c, string, fmt)
    \/ \E c \in ClientIds, salt_fmt \in Formats, password_fmt \in Formats :
         scrypt(c, Text("abc"), PyInt(10), PyInt(8), PyInt(1), PyInt(64),
                Text("salt"), salt_fmt, Text("password"), password_fmt)
    \/ \E c \in ClientIds, index \in Indexes : keystore_remove(c, index)
    \/ \E c \in ClientIds, number \in Numbers : factorize(c, number)
    \/ \E c \in ClientIds, o \in NaclOps, fmt \in Formats :
         nacl_message(c, o, [k \in o.keys |-> Text("abc")], Unicode, fmt)
    \/ JsonRequest
    \/ ReadResponse
    \/ DestroyResponse
    \/ Return

SpecParams == InitOn({"Linux"}) /\ [][NextParams]_vars

\* ------------------------------------------------------ subscriptions
\* The net module of the tonclient package and the engine's delivery of
\* events, after the Subscription/Event Channel of the specification: a
\* subscription is Active until unsubscribe; suspend and resume act on the
\* context; an emitted event is queued for every subscription that is to
\* receive it, and the callback is invoked from the queue.
\*
\* A subscription keeps a log with one entry for each event emitted since
\* it was made:
\*   at      what the subscription was when the event was emitted:
\*           "active", "suspended" (its context was) or "closed"
\*           (unsubscribed, or its context destroyed);
\*   status  "queued" for the callback, "delivered" to it, or "none".
NewSub(c) ==
    [client |-> c, ctx |-> clients[c].ctx, state |-> "active", log |-> <<>>]

SubIds == 1 .. Len(subs)

\* The client can call its net module: it is constructed, is not inside a
\* request, and its context has not been destroyed.
CanCall(c) ==
    /\ call.pc \in Finished
    /\ clients[c].state = "ready"
    /\ clients[c].ctx \in live

\* net.subscribe_collection(..., callback): registers with the engine.
subscribe_collection(c) ==
    /\ CanCall(c)
    /\ Len(subs) < MaxSubs
    /\ subs' = Append(subs, NewSub(c))
    /\ UNCHANGED <<importVars, libLoads, engineVars, clients, call, nCalls,
                   suspended, emitted>>

\* net.suspend(): the engine stops delivering on the client's context.
suspend(c) ==
    /\ CanCall(c)
    /\ clients[c].ctx \notin suspended
    /\ suspended' = suspended \cup {clients[c].ctx}
    /\ UNCHANGED <<importVars, libLoads, engineVars, clients, call, nCalls,
                   subs, emitted>>

\* net.resume(): delivery continues, for the events emitted from now on.
resume(c) ==
    /\ CanCall(c)
    /\ clients[c].ctx \in suspended
    /\ suspended' = suspended \ {clients[c].ctx}
    /\ UNCHANGED <<importVars, libLoads, engineVars, clients, call, nCalls,
                   subs, emitted>>

\* A bug that leaves the queued events of the subscription in the queue.
discard_nothing(log) == log

\* What is queued for a subscription is discarded.
discard_queued(log) ==
    [i \in DOMAIN log |->
        IF log[i].status = "queued" THEN [log[i] EXCEPT !.status = "none"]
        ELSE log[i]]

\* net.unsubscribe(subscription): terminal.
unsubscribe(c, s) ==
    /\ CanCall(c)
    /\ subs[s].client = c
    /\ subs[s].state = "active"
    /\ subs' = [subs EXCEPT ![s].state = "unsubscribed",
                            ![s].log = discard_queued(@)]
    /\ UNCHANGED <<importVars, libLoads, engineVars, clients, call, nCalls,
                   suspended, emitted>>

\* A bug that queues an event for the subscriptions of a suspended context
\* as well, to deliver it after resume.
emit_queued(sub) ==
    IF sub.state # "active" \/ sub.ctx \notin live
    THEN [at |-> "closed", status |-> "none"]
    ELSE IF sub.ctx \in suspended
    THEN [at |-> "suspended", status |-> "queued"]
    ELSE [at |-> "active", status |-> "queued"]

\* What an event emitted now is for a subscription: queued when the
\* subscription is Active on a live context that is not suspended, dropped
\* otherwise.
emit(sub) ==
    IF sub.state # "active" \/ sub.ctx \notin live
    THEN [at |-> "closed", status |-> "none"]
    ELSE IF sub.ctx \in suspended
    THEN [at |-> "suspended", status |-> "none"]
    ELSE [at |-> "active", status |-> "queued"]

\* The engine emits an event that matches every subscription.
EngineEvent ==
    /\ emitted < MaxEvents
    /\ emitted' = emitted + 1
    /\ subs' = [s \in SubIds |->
                   [subs[s] EXCEPT !.log = Append(@, emit(subs[s]))]]
    /\ UNCHANGED <<importVars, libLoads, engineVars, clients, call, nCalls,
                   suspended>>

\* The events queued for a subscription, by their place in its log.
Queued(s) == {i \in DOMAIN subs[s].log : subs[s].log[i].status = "queued"}

\* The oldest event queued for a subscription.
Oldest(s) == CHOOSE i \in Queued(s) : \A j \in Queued(s) : i <= j

\* The engine's thread invokes the callback of a subscription with the
\* oldest event queued for it; nothing is delivered on a context that is
\* suspended or destroyed.
Callback(s) ==
    /\ Queued(s) # {}
    /\ subs[s].ctx \in live
    /\ subs[s].ctx \notin suspended
    /\ subs' = [subs EXCEPT ![s].log[Oldest(s)].status = "delivered"]
    /\ UNCHANGED <<importVars, libLoads, engineVars, clients, call, nCalls,
                   suspended, emitted>>

\* Clients, their subscriptions and the engine's events.
NextNet ==
    \/ ImportLib
    \/ ConstructLib
    \/ \E c \in ClientIds : subscribe_collection(c)
    \/ \E c \in ClientIds : suspend(c)
    \/ \E c \in ClientIds : resume(c)
    \/ \E c \in ClientIds, s \in SubIds : unsubscribe(c, s)
    \/ EngineEvent
    \/ \E s \in SubIds : Callback(s)

SpecNet == InitOn({"Linux"}) /\ [][NextNet]_vars

\* The requests tried on clients that suspend and resume, <<method, params>>.
NetLibRequests ==
    { <<"setup", PyDict("baseUrl" :> Text(MAINNET_BASE_URL))>>,
      <<"processing.process_message", PyDict("message" :> Text("abc"))>> }

\* Several clients: each is constructed, configured, used, suspended, resumed
\* and destroyed.
NextClients ==
    \/ ImportLib
    \/ ConstructLib
    \/ ConstructFacade(EmptyMap)
    \/ \E c \in ClientIds, req \in NetLibRequests : LibRequest(c, req, TRUE)
    \/ \E c \in ClientIds : clients[c].ctx \in live /\ DestroyContext(c)
    \/ JsonRequest
    \/ ReadResponse
    \/ DestroyResponse
    \/ Return
    \/ \E c \in ClientIds : suspend(c)
    \/ \E c \in ClientIds : resume(c)

SpecClients == InitOn({"Linux"}) /\ [][NextClients]_vars

\* ------------------------------------------------------------- claims
\* The call has ended and the engine's answer could be read.
Answered == call.pc \in {"returned", "raised"}

\* The call has ended on an engine answer that reports an error.
AnsweredError == Answered /\ call.response.decodable /\ ~call.response.success

\* C1: a request issued after destroy_context fails with ContextInvalid,
\* is not forwarded to the engine with the retired handle, and returns no
\* result.
C1_DestroyedContextRejected ==
    call.retired =>
        /\ call.sent = 0
        /\ call.pc # "returned"
        /\ (call.pc \in Finished => call.exc = "ContextInvalid")

\* C2: when the engine answers success=false and request raises, the
\* payload in the raised error is the payload of the engine's answer.
C2_ErrorPayloadVerbatim ==
    (AnsweredError /\ call.exc # "") =>
        /\ call.exc = "Exception"
        /\ call.exc_payload = call.response.payload

C2_Witness ==
    /\ call.pc = "raised"
    /\ call.response.payload = "error2"
    /\ call.exc_payload = "error2"

AllDestroyed ==
    \A c \in ClientIds :
        clients[c].state = "ready" => destroyCalls[clients[c].ctx] >= 1

\* C4: once no construction is in progress and every constructed client has
\* been destroyed, no engine context is live; also after a construction whose
\* setup request failed.
C4_NoContextLeak ==
    (call.pc \in Finished /\ AllDestroyed) => live = {}

\* C5: tc_destroy_context is invoked at most once per created handle.
C5_DestroyAtMostOnce == \A h \in Handles : destroyCalls[h] <= 1

\* The members of the JSON object that a settings map is sent as.
SettingsJson(settings) == json_dumps(PyDict(settings)).members

\* The documented default of a setting.
DocumentedDefault(k) ==
    CASE k = "messageRetriesCount" -> PyInt(1)
      [] k = "messageExpirationTimeout" -> PyInt(50000)
      [] k = "messageExpirationTimeoutGrowFactor" -> PyFloat(3, 2)
      [] k = "messageProcessingTimeout" -> PyInt(50000)
      [] k = "messageProcessingTimeoutGrowFactor" -> PyFloat(3, 2)
      [] k = "waitForTimeout" -> PyInt(30000)
      [] k = "accessKey" -> PyStr(<<>>)
      [] k = "servers" -> PyList(<<PyStr(<<Run("http://localhost")>>)>>)

DocumentedKeys ==
    {"servers", "messageRetriesCount", "messageExpirationTimeout",
     "messageExpirationTimeoutGrowFactor", "messageProcessingTimeout",
     "messageProcessingTimeoutGrowFactor", "waitForTimeout", "accessKey"}

\* C6: constructing a client.py client with config C sends exactly one
\* setup request, the first request on the new context; its settings hold
\* every documented key, C[k] for k in C and the documented default
\* otherwise.
C6_SetupMergedConfig ==
    /\ \A c \in ClientIds :
          (clients[c].kind = "facade" /\ clients[c].state # "constructing")
              => clients[c].initSetups = 1
    /\ (call.purpose = "init" /\ call.sent >= 1) =>
          LET C == clients[call.client].config
              M == call.wire.members IN
          /\ call.sent = 1
          /\ call.first
          /\ call.method = "setup"
          /\ call.ctx = clients[call.client].ctx
          /\ call.wire.type = "object"
          /\ DocumentedKeys \subseteq DOMAIN M
          /\ \A k \in DOMAIN C : k \in DOMAIN M /\ M[k] = json_dumps(C[k])
          /\ \A k \in DocumentedKeys \ DOMAIN C :
                M[k] = json_dumps(DocumentedDefault(k))

C6_Witness ==
    /\ call.purpose = "init"
    /\ call.pc = "returned"
    /\ clients[call.client].state = "ready"
    /\ clients[call.client].config = ("servers" :> CallerValue("servers"))
    /\ engineCfg[call.ctx].set
    /\ engineCfg[call.ctx].settings["servers"] =
           json_dumps(CallerValue("servers"))
    /\ engineCfg[call.ctx].settings["waitForTimeout"] =
           json_dumps(PyInt(30000))

\* C7 as stated: the configuration in effect for the context of a constructed
\* client.py client stays the one merged at its construction.
C7_ConfigImmutable ==
    \A c \in ClientIds :
        (clients[c].kind = "facade" /\ clients[c].state = "ready") =>
            /\ engineCfg[clients[c].ctx].set
            /\ engineCfg[clients[c].ctx].settings =
                   SettingsJson(
                       merge(TON_CLIENT_DEFAULT_SETUP, clients[c].config))

\* C7 as amended: the configuration in effect for a context changes only
\* when a setup request issued through the client that owns the context is
\* answered with success, and then to the settings of that request.
C7_ConfigChangesOnlyBySetup ==
    [][\A h \in Handles :
          engineCfg'[h] # engineCfg[h] =>
              /\ call.pc = "send"
              /\ call.method = "setup"
              /\ clients[call.client].ctx = h
              /\ call'.response.success
              /\ engineCfg'[h] = [set |-> TRUE, settings |-> call.wire.members]
      ]_vars

C7_Witness ==
    /\ call.purpose = "user"
    /\ call.method = "setup"
    /\ call.pc = "returned"
    /\ clients[call.client].kind = "facade"
    /\ engineCfg[call.ctx].settings = call.wire.members
    /\ engineCfg[call.ctx].settings #
           SettingsJson(
               merge(TON_CLIENT_DEFAULT_SETUP, clients[call.client].config))

\* C8: when request returns or raises, the response it obtained has been
\* given to tc_destroy_json_response exactly once and none is unreleased.
C8_ResponseReleasedOnEveryExit ==
    call.pc \in Finished =>
        /\ unreleased = {}
        /\ (call.sent > 0 => call.releases = 1)

ClaimedExtension(name) ==
    CASE name = "windows" -> "dll"
      [] name = "darwin"  -> "dylib"
      [] name = "linux"   -> "so"

\* C10: on a platform whose name is not windows, darwin or linux the
\* resolution fails with an error naming the platform, the library is never
\* loaded and no context is created; on the three mapped platforms the
\* resolved artifact has extension dll, dylib and so.
C10_UnmappedPlatformFailsFast ==
    LET name == Lower(platform) IN
    IF name \notin {"windows", "darwin", "linux"}
    THEN /\ imported \in {"no", "failed"}
         /\ libLoads = 0
         /\ nCtx = 0
         /\ clients = <<>>
         /\ imported = "failed" =>
               /\ ~resolved.ok
               /\ resolved.error = "RuntimeError: No library for current platform"
               /\ resolved.platform = Capitalize(name)
    ELSE imported # "no" =>
               /\ imported = "ok"
               /\ resolved.ok
               /\ resolved.dir = LIB_DIR
               /\ resolved.file = LIB_FILENAME
               /\ resolved.ext = ClaimedExtension(name)

C10_Witness ==
    /\ platform = "Java"
    /\ imported = "failed"
    /\ resolved.platform = "Java"

\* C11: a request whose response cannot be decoded ends by raising the typed
\* MalformedResponse error: it never ends with the raw exception of the read
\* and never returns a value.
C11_MalformedResponseTyped ==
    (call.pc \in Finished /\ call.sent >= 1 /\ ~call.response.decodable) =>
        /\ call.exc = "MalformedResponse"
        /\ call.pc # "returned"
        /\ call.value = ""

\* The call is a request that reached the engine.
Sent == call.purpose = "user" /\ call.sent >= 1

\* C12: the params payload handed to the engine decodes back to the value
\* the caller passed to request, for every value that is a map, an array or
\* a string, nested, non-ASCII or empty.
C12_EncodingLossless ==
    (Sent /\ call.params.tag \in {"dict", "list", "str"}) =>
        json_loads(call.wire) = call.params

\* The operations that take a string and its format, and where the format
\* arguments stand among their arguments.
FormatOps ==
    {"ton_crc16", "sha256", "sha512", "scrypt", "mnemonic_from_entropy"}
        \cup {o.name : o \in NaclOps}

\* The <<string, fmt>> pairs given to the operation in progress.
TaggedArgs ==
    IF call.op = "scrypt"
    THEN {<<call.args[6], call.args[7]>>, <<call.args[8], call.args[9]>>}
    ELSE {<<call.args[1], call.args[2]>>}

\* The single-entry map the claim gives for a string and a format.
ClaimedTagged(string, fmt) ==
    CASE fmt = PyStr(<<Run("text")>>)   -> PyDict("text" :> string)
      [] fmt = PyStr(<<Run("hex")>>)    -> PyDict("hex" :> string)
      [] fmt = PyStr(<<Run("base64")>>) -> PyDict("base64" :> string)

KnownFormats ==
    {PyStr(<<Run("text")>>), PyStr(<<Run("hex")>>), PyStr(<<Run("base64")>>)}

\* C16: an operation that takes a format and is given one other than text,
\* hex or base64 ends with ValueError and no request: request is not called
\* and nothing is sent to the engine.  Given known formats, the params passed
\* to request hold {fmt: string} for each string and its format.
C16_BadFormatFailsBeforeRequest ==
    /\ (call.op \in FormatOps /\ call.pc # "idle") =>
          IF \E a \in TaggedArgs : a[2] \notin KnownFormats
          THEN /\ call.pc = "raised"
               /\ call.exc = "ValueError"
               /\ call.sent = 0
               /\ call.id = 0
               /\ call.wire = IdleCall.wire
          ELSE LET P == call.params.items IN
               CASE call.op = "ton_crc16" ->
                      call.params = ClaimedTagged(call.args[1], call.args[2])
                 [] call.op = "mnemonic_from_entropy" ->
                      P["entropy"] = ClaimedTagged(call.args[1], call.args[2])
                 [] call.op = "scrypt" ->
                      /\ P["salt"] = ClaimedTagged(call.args[6], call.args[7])
                      /\ P["password"] =
                             ClaimedTagged(call.args[8], call.args[9])
                 [] OTHER ->
                      P["message"] = ClaimedTagged(call.args[1], call.args[2])
    /\ engineReqs = nCalls - (IF call.pc = "send" THEN 1 ELSE 0)

C16_Witness ==
    /\ call.op = "scrypt"
    /\ call.args[7] = PyStr(<<Run("hex")>>)
    /\ call.args[9] = PyNone
    /\ call.pc = "raised"
    /\ call.exc = "ValueError"
    /\ nCalls = 1
    /\ engineReqs = 1

EmptyObject == [type |-> "object", members |-> EmptyMap]

\* The falsy values: None, {}, [], "", 0, 0.0 and False.
FalsyValues ==
    { PyNone, PyDict(EmptyMap), PyList(<<>>), PyStr(<<>>), PyInt(0),
      PyFloat(0, 1), PyBool(FALSE) }

\* C17 as stated: the params payload is {} when the params are falsy and
\* their JSON serialisation otherwise, and factorize or keystore_remove given
\* "" or 0 reaches the engine with the payload {}.
C17_FalsyParamsEmptyObject ==
    Sent =>
        /\ call.wire = IF call.params \in FalsyValues THEN EmptyObject
                       ELSE json_dumps(call.params)
        /\ (/\ call.op \in {"factorize", "keystore_remove"}
            /\ call.args[1] \in {PyStr(<<>>), PyInt(0)})
               => call.wire = EmptyObject

\* C17 as amended: the params payload is {} when the params given to request
\* are falsy and their JSON serialisation otherwise; factorize gives its
\* argument to request, so factorize("") and factorize(0) send {};
\* keystore_remove gives str(index), so only keystore_remove("") sends {}
\* and keystore_remove(0) sends the JSON string "0".
C17_FalsyRequestParamsEmptyObject ==
    Sent =>
        /\ call.wire = IF call.params \in FalsyValues THEN EmptyObject
                       ELSE json_dumps(call.params)
        /\ (call.op = "factorize" /\ call.args[1] \in {PyStr(<<>>), PyInt(0)})
               => call.wire = EmptyObject
        /\ (call.op = "keystore_remove" /\ call.args[1] = PyStr(<<>>))
               => call.wire = EmptyObject
        /\ (call.op = "keystore_remove" /\ call.args[1] = PyInt(0))
               => call.wire = [type |-> "string", members |-> <<Chars("0")>>]

C17_Witness ==
    /\ call.op = "factorize"
    /\ call.args[1] = PyInt(0)
    /\ call.pc = "returned"
    /\ call.wire = EmptyObject

\* The events delivered to the callback of a subscription.
Delivered(log) == {i \in DOMAIN log : log[i].status = "delivered"}

\* The subscription was Active for its first event, suspended for its
\* second and Active again for its third.
SuspendedForSecond(log) ==
    /\ Len(log) = 3
    /\ log[1].at = "active"
    /\ log[2].at = "suspended"
    /\ log[3].at = "active"

\* C13: an event emitted while the context of a subscription is suspended is
\* never queued for its callback nor delivered to it, whatever follows; an
\* event emitted while the subscription is Active is queued or delivered as
\* long as the subscription lasts; so once nothing is queued, a subscription
\* that was suspended for the second of three events has had its callback
\* invoked exactly twice, for the first and the third.
C13_SuspendedEventsDropped ==
    \A s \in SubIds :
        LET log == subs[s].log IN
        /\ \A i \in DOMAIN log :
              log[i].at = "suspended" => log[i].status = "none"
        /\ \A i \in DOMAIN log :
              (log[i].at = "active" /\ subs[s].state = "active")
                  => log[i].status \in {"queued", "delivered"}
        /\ (SuspendedForSecond(log) /\ subs[s].state = "active"
                /\ Queued(s) = {})
              => Delivered(log) = {1, 3}

C13_Witness ==
    \E s \in SubIds :
        /\ SuspendedForSecond(subs[s].log)
        /\ Delivered(subs[s].log) = {1, 3}
        /\ subs[s].state = "active"
        /\ subs[s].ctx \notin suspended

\* C14: from the moment unsubscribe has returned the subscription stays
\* Unsubscribed and its callback is not invoked again, whichever step is
\* taken: an event, a callback, suspend or resume.
C14_UnsubscribedTerminal ==
    [][\A s \in SubIds :
          subs[s].state = "unsubscribed" =>
              /\ subs'[s].state = "unsubscribed"
              /\ Delivered(subs'[s].log) = Delivered(subs[s].log)
      ]_vars

\* Unsubscribed with an event delivered before, an event that was queued
\* when unsubscribe was called, and an event emitted afterwards.
C14_Witness ==
    \E s \in SubIds :
        /\ subs[s].state = "unsubscribed"
        /\ Delivered(subs[s].log) # {}
        /\ \E i \in DOMAIN subs[s].log :
              subs[s].log[i].at = "active" /\ subs[s].log[i].status = "none"
        /\ \E i \in DOMAIN subs[s].log : subs[s].log[i].at = "closed"

\* The step is one by which client c suspends, resumes, configures, uses or
\* destroys its context.
Acts(c) ==
    \/ suspend(c)
    \/ resume(c)
    \/ DestroyContext(c)
    \/ (call.client = c /\ JsonRequest)

\* The step leaves client d as it is: its handle, and for its context the
\* configuration and whether it is live and whether it is suspended.
Untouched(d) ==
    LET h == clients[d].ctx IN
    /\ clients'[d] = clients[d]
    /\ engineCfg'[h] = engineCfg[h]
    /\ destroyCalls'[h] = destroyCalls[h]
    /\ (h \in live') <=> (h \in live)
    /\ (h \in suspended') <=> (h \in suspended)

====
